---- MODULE Spec2Model ----
(***************************************************************************)
(* Verification model of mgcpy's time-series independence tests            *)
(*   src/mgcpy/independence_tests/ts_abstract_class.py                     *)
(*       (TimeSeriesIndependenceTest)                                      *)
(*   src/mgcpy/independence_tests/mgs_ts.py   (MGC_TS)                     *)
(*   src/mgcpy/independence_tests/hhg.py      (HHG)                        *)
(*                                                                         *)
(* Real numbers are exact rationals <<num, den>> in lowest terms, so that   *)
(* equality of states is equality of values.  The wrapped base statistic   *)
(* (test_obj, an injected object) is an oracle: each invocation returns a  *)
(* value of StatValues and, for 'mgcx', an optimal_scale of Scales.        *)
(***************************************************************************)
EXTENDS Integers, Sequences, FiniteSets, TLC

\* ------------------------------------------------------------------ bounds
MaxN == 7                         \* sample sizes of the statistic-only runs
MaxLag == 2                       \* configured max_lag ranges over 0..MaxLag
MaxRep == 2                       \* replication_factor ranges over 1..MaxRep
MaxMgcLag == 1                    \* MGC_TS max_lag ranges over 0..MaxMgcLag
MgcSizes == {4}                   \* sample sizes of the MGC_TS runs
MgcStatValues == {-1, 1}          \* MGC statistic values, MGC_TS runs
HhgMaxN == 4                      \* sample sizes of the HHG runs are 1..HhgMaxN
HhgCoords == {0, 1}               \* coordinates of the HHG data
StatValues == {-1, 0, 5, 6}       \* base statistic values, statistic-only runs
PVStatValues == {-1, 10}          \* base statistic values, p-value runs
PVSizes == {4, 5, 6, 40, 44}      \* sample sizes of the p-value runs
Scales == {"scaleA", "scaleB"}
WhichTests == {"mgcx", "unbiased"}
Backends == {"sequential", "loky"}

\* ------------------------------------------------------------- Python None
None == <<>>
Some(v) == <<v>>
IsNone(o) == o = <<>>
Get(o) == o[1]

\* --------------------------------------------------------------- rationals
Abs(a) == IF a < 0 THEN -a ELSE a

RECURSIVE GCD(_, _)
GCD(a, b) == IF b = 0 THEN a ELSE GCD(b, a % b)

Rat(a, b) == LET g == GCD(Abs(a), b) IN <<a \div g, b \div g>>
RatAdd(p, q) == Rat(p[1] * q[2] + q[1] * p[2], p[2] * q[2])
RatGreater(p, q) == p[1] * q[2] > q[1] * p[2]
RatMax0(s) == IF s > 0 THEN s ELSE 0

\* ceil(log(n)) for n >= 1: the least k with n <= e^k; floor(e^k) for k = 0..5
ExpFloor == <<1, 2, 7, 20, 54, 148>>
CeilLog(n) == CHOOSE k \in 0..5 : n <= ExpFloor[k + 1] /\ (k = 0 \/ n > ExpFloor[k])

\* sqrt(n) where it is exact (n a perfect square)
Sqrt(n) == CHOOSE r \in 0..n : r * r = n

RECURSIVE SumTo(_, _)
SumTo(xs, k) == IF k = 0 THEN 0 ELSE xs[k] + SumTo(xs, k - 1)

SumSeq(xs) == SumTo(xs, Len(xs))

\* ceil(sqrt(n)) and floor(sqrt(n))
CeilSqrt(n) == CHOOSE r \in 0..n : r * r >= n /\ (r = 0 \/ (r - 1) * (r - 1) < n)
FloorSqrt(n) == CHOOSE r \in 0..n : r * r <= n /\ (r + 1) * (r + 1) > n

VARIABLES
    max_lag,                    \* self.max_lag: None or Some(int)
    which_test,                 \* self.which_test
    test_statistic_,            \* self.test_statistic_
    test_statistic_metadata_,   \* self.test_statistic_metadata_
    p_value_,                   \* self.p_value_
    p_value_metadata_,          \* self.p_value_metadata_
    pc,                         \* "idle", or where a running p_value call is
    frame,                      \* locals of the running p_value call
    test_stats_null,            \* results of the workers, by worker index
    permuted_indices,           \* the index vector of the latest permutation draw
    drawn_offsets,              \* the block starts np.random.choice returned for it
    ret,                        \* what the last call returned or raised
    baseCalls,                  \* invocations of test_obj.test_statistic in the call
    draws,                      \* permutation draws in the call
    dispatched,                 \* TRUE once a p_value call has dispatched its workers
    mgc_ts,                     \* the MGC_TS instance: max_lag and the result fields
    mgc_call,                   \* the running or last MGC_TS call: pc, locals, ret
    hhg_args,                   \* matrix_X and matrix_Y handed to HHG.test_statistic
    hhg,                        \* the HHG instance: the result fields
    hhg_ret                     \* what the last HHG call returned or raised

fields == <<test_statistic_, test_statistic_metadata_, p_value_, p_value_metadata_>>
config == <<max_lag, which_test>>
call == <<pc, frame, test_stats_null, permuted_indices, drawn_offsets>>
ts_vars == <<max_lag, which_test, test_statistic_, test_statistic_metadata_,
             p_value_, p_value_metadata_, pc, frame, test_stats_null,
             permuted_indices, drawn_offsets, ret, baseCalls, draws>>
mgc_vars == <<mgc_ts, mgc_call>>
hhg_vars == <<hhg_args, hhg, hhg_ret>>
vars == <<max_lag, which_test, test_statistic_, test_statistic_metadata_,
          p_value_, p_value_metadata_, pc, frame, test_stats_null,
          permuted_indices, drawn_offsets, ret, baseCalls, draws, dispatched,
          mgc_ts, mgc_call, hhg_args, hhg, hhg_ret>>

\* ------------------------------------------------------- _validate_input
\* Variant: the lag check of line 88 written with > instead of >=.
ValidateInput_StrictLag(nX, nY, block_size, M) ==
    IF nX # nY THEN [outcome |-> "AssertionError"]
    ELSE IF IsNone(M) THEN [outcome |-> "TypeError"]
    ELSE IF Get(M) > nX - 4 THEN [outcome |-> "ValueError"]
    ELSE [outcome |-> "ok",
          block_size |-> IF IsNone(block_size) THEN CeilSqrt(nX) ELSE Get(block_size),
          M |-> IF ~IsNone(max_lag) THEN Get(max_lag) ELSE CeilLog(nX),
          n |-> nX]

\* Lines 86-102.  M is self.max_lag as passed by both callers.
ValidateInput(nX, nY, block_size, M) ==
    IF nX # nY THEN [outcome |-> "AssertionError"]
    ELSE IF IsNone(M) THEN [outcome |-> "TypeError"]      \* None >= int
    ELSE IF Get(M) >= nX - 4 THEN [outcome |-> "ValueError"]
    ELSE [outcome |-> "ok",
          block_size |-> IF IsNone(block_size) THEN CeilSqrt(nX) ELSE Get(block_size),
          M |-> IF ~IsNone(max_lag) THEN Get(max_lag) ELSE CeilLog(nX),
          n |-> nX]

\* ---------------------------------------------------------- test_statistic
\* Variant: the comparison of line 145 written with >= instead of >.
LagStep_LaterOnTie(st, j, n, out) ==
    LET d == Rat((n - j) * RatMax0(out.stat), n)
        better == ~RatGreater(st.dependence_by_lag[st.optimal_lag], d)
    IN [dependence_by_lag |-> [st.dependence_by_lag EXCEPT ![j] = d],
        optimal_lag |-> IF better THEN j ELSE st.optimal_lag,
        optimal_scale |-> IF better /\ which_test = "mgcx"
                          THEN Some(out.scale) ELSE st.optimal_scale]

\* Variant: line 147 outside the if of line 145, the scale of every lag kept.
LagStep_ScaleOfLastLag(st, j, n, out) ==
    LET d == Rat((n - j) * RatMax0(out.stat), n)
        better == RatGreater(d, st.dependence_by_lag[st.optimal_lag])
    IN [dependence_by_lag |-> [st.dependence_by_lag EXCEPT ![j] = d],
        optimal_lag |-> IF better THEN j ELSE st.optimal_lag,
        optimal_scale |-> IF which_test = "mgcx"
                          THEN Some(out.scale) ELSE st.optimal_scale]

\* One pass of the loop body of lines 140-147 for lag j.
LagStep(st, j, n, out) ==
    LET d == Rat((n - j) * RatMax0(out.stat), n)
        better == RatGreater(d, st.dependence_by_lag[st.optimal_lag])
    IN [dependence_by_lag |-> [st.dependence_by_lag EXCEPT ![j] = d],
        optimal_lag |-> IF better THEN j ELSE st.optimal_lag,
        optimal_scale |-> IF better /\ which_test = "mgcx"
                          THEN Some(out.scale) ELSE st.optimal_scale]

RECURSIVE LagLoop(_, _, _, _, _)
LagLoop(st, j, M, n, outs) ==
    IF j > M THEN st ELSE LagLoop(LagStep(st, j, n, outs[j]), j + 1, M, n, outs)

\* Variant: line 139 without np.maximum(0.0, .).
LagAggregate_NoFloorAtLag0(n, M, outs) ==
    LET st0 == [dependence_by_lag |-> [j \in 0..M |->
                    IF j = 0 THEN Rat(outs[0].stat, 1) ELSE Rat(0, 1)],
                optimal_lag |-> 0,
                optimal_scale |-> IF which_test = "mgcx" THEN Some(outs[0].scale) ELSE None]
    IN LagLoop(st0, 1, M, n, outs)

\* Lines 132-147: outs[j] is what test_obj.test_statistic returns at lag j.
LagAggregate(n, M, outs) ==
    LET st0 == [dependence_by_lag |-> [j \in 0..M |->
                    IF j = 0 THEN Rat(RatMax0(outs[0].stat), 1) ELSE Rat(0, 1)],
                optimal_lag |-> 0,
                optimal_scale |-> IF which_test = "mgcx" THEN Some(outs[0].scale) ELSE None]
    IN LagLoop(st0, 1, M, n, outs)

\* Variant: the sum of line 152 taken over the lags 1..M only.
RECURSIVE SumLags_SkipLag0(_, _)
SumLags_SkipLag0(dbl, j) ==
    IF j < 1 THEN Rat(0, 1) ELSE RatAdd(SumLags_SkipLag0(dbl, j - 1), dbl[j])

\* np.sum(dependence_by_lag), line 152
RECURSIVE SumLags(_, _)
SumLags(dbl, j) == IF j < 0 THEN Rat(0, 1) ELSE RatAdd(SumLags(dbl, j - 1), dbl[j])

\* Lines 150-151: the metadata dict
Metadata(st) ==
    [optimal_lag |-> st.optimal_lag,
     dependence_by_lag |-> st.dependence_by_lag,
     optimal_scale |-> st.optimal_scale,
     has_optimal_scale |-> which_test = "mgcx"]

\* Lines 132-154 for validated inputs v: the returned pair.
StatResult(v, outs) ==
    LET st == LagAggregate(v.n, v.M, outs)
    IN [value |-> SumLags(st.dependence_by_lag, v.M), metadata |-> Metadata(st)]

\* What the base statistic may return for the lags a call evaluates
BaseOutputs(lags, E) ==
    [lags -> [stat : E.stat, scale : IF which_test = "mgcx" THEN E.scale ELSE {"absent"}]]

LagsOf(v) == IF v.outcome = "ok" THEN 0..v.M ELSE {}

NoArgs == [replication_factor |-> 0, is_fast |-> FALSE, block_size |-> None,
           subsample_size |-> 0]

Raised(name, exc, nX, nY, args) ==
    [call |-> name, outcome |-> exc, n |-> nX, nY |-> nY, value |-> None,
     metadata |-> None, base0 |-> None, base |-> None, args |-> args]

TestStatistic(nX, nY, E) ==
    LET v == ValidateInput(nX, nY, None, max_lag) IN
    /\ pc = "idle"
    /\ ~dispatched
    /\ \E outs \in BaseOutputs(LagsOf(v), E) :
          IF v.outcome # "ok"
          THEN /\ ret' = Raised("test_statistic", v.outcome, nX, nY, NoArgs)
               /\ baseCalls' = 0
               /\ UNCHANGED <<test_statistic_, test_statistic_metadata_>>
          ELSE LET r == StatResult(v, outs)
               IN /\ test_statistic_' = Some(r.value)
                  /\ test_statistic_metadata_' = Some(r.metadata)
                  /\ ret' = [call |-> "test_statistic", outcome |-> "ok", n |-> nX, nY |-> nY,
                             value |-> Some(r.value), metadata |-> Some(r.metadata),
                             base0 |-> Some(outs[0].stat), base |-> Some(outs),
                             args |-> NoArgs]
                  /\ baseCalls' = v.M + 1
    /\ draws' = 0
    /\ UNCHANGED <<config, p_value_, p_value_metadata_, call, dispatched, mgc_vars, hhg_vars>>

\* ----------------------------------------------------- block permutation
\* Lines 200-201 and 268-269: runs of block_size indices from each offset,
\* flattened, cut to n entries, reduced modulo n.
Min(a, b) == IF a < b THEN a ELSE b
Max(a, b) == IF a > b THEN a ELSE b

\* Variant: line 201 (np.mod) left out, as in MGC_TS.p_value.
BlockPermutation_NoModulo(n, block_size, offsets) ==
    LET flat == [i \in 1..(Len(offsets) * block_size) |->
                    offsets[((i - 1) \div block_size) + 1] + ((i - 1) % block_size)]
    IN SubSeq(flat, 1, Min(n, Len(flat)))

BlockPermutation(n, block_size, offsets) ==
    LET flat == [i \in 1..(Len(offsets) * block_size) |->
                    offsets[((i - 1) \div block_size) + 1] + ((i - 1) % block_size)]
        cut == SubSeq(flat, 1, Min(n, Len(flat)))
    IN [i \in 1..Len(cut) |-> cut[i] % n]

\* Variant: ceil(n / block_size) + 1 offsets drawn.
OffsetDraws_CeilPlusOne(n, block_size, E) ==
    [1..(((n + block_size - 1) \div block_size) + 1) -> E.offsets \cap (0..(n - 1))]

\* np.random.choice(n, n // block_size + 1), the offsets drawn from E.offsets
OffsetDraws(n, block_size, E) ==
    [1..((n \div block_size) + 1) -> E.offsets \cap (0..(n - 1))]

\* ------------------------------------------------------------ p_value
NoFrame == [n |-> 0, block_size |-> 0, replication_factor |-> 0, is_fast |-> FALSE,
            test_statistic |-> Rat(0, 1), subsample_size |-> 0, num_samples |-> 0,
            permuted_Y |-> <<>>, backend |-> "none", args |-> NoArgs]

\* Variant: the commented-out line 261, floor(sqrt(n)) alone as the substitute.
EffectiveSubsample_SqrtOnly(n, subsample_size) ==
    IF subsample_size < Get(max_lag) + 10
    THEN FloorSqrt(n)
    ELSE subsample_size

\* Lines 257-258
EffectiveSubsample(n, subsample_size) ==
    IF subsample_size < Get(max_lag) + 10
    THEN Max(Get(max_lag) + 10, FloorSqrt(n))
    ELSE subsample_size

\* Lines 192-196 and, in fast mode, 256-270: up to the dispatch of the workers.
PValueEnter(nX, nY, replication_factor, is_fast, block_size, subsample_size, backend, E) ==
    LET v == ValidateInput(nX, nY, block_size, max_lag)
        args == [replication_factor |-> replication_factor, is_fast |-> is_fast,
                 block_size |-> block_size, subsample_size |-> subsample_size]
    IN
    /\ pc = "idle"
    /\ ~dispatched
    /\ IF v.outcome # "ok"
       THEN /\ ret' = Raised("p_value", v.outcome, nX, nY, args)
            /\ baseCalls' = 0
            /\ draws' = 0
            /\ UNCHANGED <<fields, call, dispatched>>
       ELSE \E outs \in BaseOutputs(LagsOf(v), E) :
            LET r == StatResult(v, outs)
                ss == EffectiveSubsample(v.n, subsample_size)
                num_samples == v.n \div ss
                fr == [n |-> v.n, block_size |-> v.block_size,
                       replication_factor |-> replication_factor, is_fast |-> is_fast,
                       test_statistic |-> r.value, subsample_size |-> ss,
                       num_samples |-> num_samples, permuted_Y |-> <<>>,
                       backend |-> backend, args |-> args]
            IN
            /\ test_statistic_' = Some(r.value)
            /\ test_statistic_metadata_' = Some(r.metadata)
            /\ baseCalls' = v.M + 1
            /\ UNCHANGED <<p_value_, p_value_metadata_>>
            /\ IF ~is_fast
               THEN /\ dispatched' = TRUE
                    /\ pc' = "exact"
                    /\ frame' = fr
                    /\ test_stats_null' = [rep \in 0..(replication_factor - 1) |-> None]
                    /\ draws' = 0
                    /\ ret' = Raised("p_value", "running", nX, nY, args)
                    /\ UNCHANGED <<permuted_indices, drawn_offsets>>
               ELSE IF num_samples < 4
               THEN /\ ret' = Raised("p_value", "ValueError", nX, nY, args)
                    /\ draws' = 0
                    /\ UNCHANGED <<call, dispatched>>
               ELSE \E offsets \in OffsetDraws(v.n, v.block_size, E) :
                    LET perm == BlockPermutation(v.n, v.block_size, offsets)
                    IN /\ dispatched' = TRUE
                       /\ pc' = "fast"
                       /\ frame' = [fr EXCEPT !.permuted_Y = perm]
                       /\ test_stats_null' = [i \in 0..(num_samples - 1) |-> None]
                       /\ permuted_indices' = perm
                       /\ drawn_offsets' = offsets
                       /\ draws' = 1
                       /\ ret' = Raised("p_value", "running", nX, nY, args)
    /\ UNCHANGED <<config, mgc_vars, hhg_vars>>

\* The worker index the backend may run next: the sequential backend runs
\* the tasks in order in the caller's thread, loky in any order in other
\* processes.
Runnable(i) ==
    /\ i \in DOMAIN test_stats_null
    /\ IsNone(test_stats_null[i])
    /\ frame.backend = "sequential" => \A k \in 0..(i - 1) : ~IsNone(test_stats_null[k])

\* self.test_statistic_ / _metadata_ as written by a worker: only the
\* sequential backend runs the worker on the caller's instance.
WorkerWrites(r) ==
    IF frame.backend = "sequential"
    THEN /\ test_statistic_' = Some(r.value)
         /\ test_statistic_metadata_' = Some(r.metadata)
    ELSE UNCHANGED <<test_statistic_, test_statistic_metadata_>>

\* Lines 199-206: one replicate
ExactWorker(rep, E) ==
    /\ pc = "exact"
    /\ Runnable(rep)
    /\ \E offsets \in OffsetDraws(frame.n, frame.block_size, E) :
       LET perm == BlockPermutation(frame.n, frame.block_size, offsets)
           v == ValidateInput(frame.n, Len(perm), None, max_lag)
       IN \E outs \in BaseOutputs(LagsOf(v), E) :
          LET r == StatResult(v, outs)
          IN /\ permuted_indices' = perm
             /\ drawn_offsets' = offsets
             /\ draws' = draws + 1
             /\ baseCalls' = baseCalls + v.M + 1
             /\ test_stats_null' = [test_stats_null EXCEPT ![rep] = Some(r.value)]
             /\ WorkerWrites(r)
    /\ UNCHANGED <<config, p_value_, p_value_metadata_, pc, frame, ret, dispatched,
                   mgc_vars, hhg_vars>>

\* Variant: the caller catching the exception and storing the statistics of
\* the workers that finished as a partial null distribution.
WorkerRaises_PartialNull(i) ==
    /\ pc \in {"exact", "fast"}
    /\ Runnable(i)
    /\ ret' = Raised("p_value", "Exception", frame.n, frame.n, frame.args)
    /\ pc' = "idle"
    /\ p_value_metadata_' = Some([null_distribution |->
            {test_stats_null[k] : k \in DOMAIN test_stats_null} \ {None}])
    /\ UNCHANGED <<config, test_statistic_, test_statistic_metadata_, p_value_, frame,
                   test_stats_null, permuted_indices, drawn_offsets, baseCalls, draws,
                   dispatched, mgc_vars, hhg_vars>>

\* test_obj.test_statistic raising in worker i (line 136, called at line 205
\* or 277): Parallel re-raises it in the caller at line 208 or 279, and the
\* lines after it do not run.
WorkerRaises(i) ==
    /\ pc \in {"exact", "fast"}
    /\ Runnable(i)
    /\ ret' = Raised("p_value", "Exception", frame.n, frame.n, frame.args)
    /\ pc' = "idle"
    /\ UNCHANGED <<config, fields, frame, test_stats_null, permuted_indices,
                   drawn_offsets, baseCalls, draws, dispatched, mgc_vars, hhg_vars>>

NullList == [i \in 1..Cardinality(DOMAIN test_stats_null) |-> Get(test_stats_null[i - 1])]

\* np.sum(np.greater(test_stats_null, test_statistic)), line 210
RECURSIVE CountGreater(_, _)
CountGreater(null, t) ==
    IF null = <<>> THEN 0
    ELSE (IF RatGreater(Head(null), t) THEN 1 ELSE 0) + CountGreater(Tail(null), t)

\* Variant: line 210 written with np.greater_equal.
ExactPValue_TiesCounted(null, t, replication_factor) ==
    LET k == Cardinality({i \in 1..Len(null) : ~RatGreater(t, null[i])})
    IN IF k = 0 THEN Rat(1, replication_factor) ELSE Rat(k, replication_factor)

\* Lines 210-212
ExactPValue(null, t, replication_factor) ==
    LET k == CountGreater(null, t)
    IN IF k = 0 THEN Rat(1, replication_factor) ELSE Rat(k, replication_factor)

\* Lines 208-215: all workers joined
ExactReturn ==
    /\ pc = "exact"
    /\ \A rep \in DOMAIN test_stats_null : ~IsNone(test_stats_null[rep])
    /\ LET p == [kind |-> "fraction",
                 frac |-> ExactPValue(NullList, frame.test_statistic, frame.replication_factor)]
           md == [null_distribution |-> NullList]
       IN /\ p_value_' = Some(p)
          /\ p_value_metadata_' = Some(md)
          /\ ret' = [call |-> "p_value", outcome |-> "ok", n |-> frame.n, nY |-> frame.n,
                     value |-> Some(p), metadata |-> Some(md), base0 |-> None, base |-> None,
                     args |-> frame.args]
    /\ pc' = "idle"
    /\ UNCHANGED <<config, test_statistic_, test_statistic_metadata_, frame,
                   test_stats_null, permuted_indices, drawn_offsets, baseCalls, draws,
                   dispatched,
                   mgc_vars, hhg_vars>>

\* ------------------------------------------------------- _fast_p_value
\* Variant: the blocks of line 274 shifted by one index.
SubsampleIndices_FromOne(subsample_size, i) ==
    [k \in 1..subsample_size |-> subsample_size * i + k]

\* Lines 273-277: the statistic on the i-th block of subsample_size indices.
SubsampleIndices(subsample_size, i) ==
    [k \in 1..subsample_size |-> subsample_size * i + (k - 1)]

FastWorker(i, E) ==
    /\ pc = "fast"
    /\ Runnable(i)
    /\ LET indices == SubsampleIndices(frame.subsample_size, i)
           v == ValidateInput(Len(indices), Len(indices), None, max_lag)
       IN IF v.outcome # "ok"
          THEN /\ ret' = Raised("p_value", v.outcome, frame.n, frame.n, frame.args)
               /\ pc' = "idle"
               /\ UNCHANGED <<test_statistic_, test_statistic_metadata_,
                              test_stats_null, baseCalls>>
          ELSE \E outs \in BaseOutputs(LagsOf(v), E) :
               LET r == StatResult(v, outs)
               IN /\ baseCalls' = baseCalls + v.M + 1
                  /\ test_stats_null' = [test_stats_null EXCEPT ![i] = Some(r.value)]
                  /\ WorkerWrites(r)
                  /\ UNCHANGED <<pc, ret>>
    /\ UNCHANGED <<config, p_value_, p_value_metadata_, frame, permuted_indices,
                   drawn_offsets, draws,
                   dispatched, mgc_vars, hhg_vars>>

RECURSIVE LCMDen(_)
LCMDen(qs) ==
    IF qs = <<>> THEN 1
    ELSE LET l == LCMDen(Tail(qs)) d == Head(qs)[2] IN (l * d) \div GCD(l, d)

\* 1 - chi2.cdf(x, 1) in double precision, by the range of x: exactly 1 for
\* x <= 0 (the cdf is 0 there), exactly 0 once the cdf rounds to 1.0; where
\* the tail is within an ulp of the rounding point either may come out.
Chi2RoundsFrom == 70
Chi2ZeroFrom == 75

\* Lines 282-288.  With the statistics as integers a[i]/L and t/L:
\*   mu = S1/(k L), sigma = sqrt(V)/(k L), V = k S2 - S1^2,
\*   x = k D / sqrt(V) + 1, D = k t - S1.
FastTail(null, test_statistic) ==
    LET k == Len(null)
        L == LCMDen(<<test_statistic>> \o null)
        a == [i \in 1..k |-> null[i][1] * (L \div null[i][2])]
        t == test_statistic[1] * (L \div test_statistic[2])
        S1 == SumSeq(a)
        S2 == SumSeq([i \in 1..k |-> a[i] * a[i]])
        V == k * S2 - S1 * S1
        D == k * t - S1
        kD2 == (k * D) * (k * D)
        sigmaSmall == V <= (((k * L) * (k * L)) - 1) \div 1000000
        xAtLeast(T) == D > 0 /\ V <= kD2 \div ((T - 1) * (T - 1))
    IN IF sigmaSmall THEN {"one"}                        \* x = 0.0
       ELSE IF D < 0 /\ kD2 >= V THEN {"one"}            \* x <= 0
       ELSE IF xAtLeast(Chi2ZeroFrom) THEN {"zero"}
       ELSE IF xAtLeast(Chi2RoundsFrom) THEN {"zero", "interior"}
       ELSE {"interior"}

\* Lines 279-291: all workers joined
FastReturn ==
    /\ pc = "fast"
    /\ \A i \in DOMAIN test_stats_null : ~IsNone(test_stats_null[i])
    /\ \E tail \in FastTail(NullList, frame.test_statistic) :
       LET p == [kind |-> "chi2sf", tail |-> tail]
           md == [null_distribution |-> NullList]
       IN /\ p_value_' = Some(p)
          /\ p_value_metadata_' = Some(md)
          /\ ret' = [call |-> "p_value", outcome |-> "ok", n |-> frame.n, nY |-> frame.n,
                     value |-> Some(p), metadata |-> Some(md), base0 |-> None, base |-> None,
                     args |-> frame.args]
    /\ pc' = "idle"
    /\ UNCHANGED <<config, test_statistic_, test_statistic_metadata_, frame,
                   test_stats_null, permuted_indices, drawn_offsets, baseCalls, draws,
                   dispatched,
                   mgc_vars, hhg_vars>>

\* ----------------------------------------------------------------- MGC_TS
\* Lines 100-115 of mgs_ts.py.  outs[0] is the MGC statistic at lag 0,
\* outs[2j-1] and outs[2j] the two statistics at lag j.  With Q = p*(M+1)
\* the weight (1 - j/(p*(M+1)))**2 is ((Q - j)/Q)**2.
RECURSIVE MgcLagSum(_, _, _, _)
MgcLagSum(j, n, Q, outs) ==
    IF j = 0 THEN 0
    ELSE MgcLagSum(j - 1, n, Q, outs)
         + (Q - j) * (Q - j) * outs[2 * j - 1] * (n - j)
         + (Q - j) * (Q - j) * outs[2 * j] * (n - j)

MgcLag(n) == IF ~IsNone(mgc_ts.max_lag) THEN Get(mgc_ts.max_lag) ELSE CeilSqrt(n)

MgcStatistic(n, outs) ==
    LET M == MgcLag(n)
        Q == Sqrt(n) * (M + 1)
    IN Rat(n * outs[0] * Q * Q + MgcLagSum(M, n, Q, outs), Q * Q)

MgcOutputs(n, E) == [0..(2 * MgcLag(n)) -> E.stat]

\* MGC_TS.test_statistic, lines 87-120
MGC_TS_TestStatistic(nX, nY, E) ==
    /\ mgc_call.pc = "idle"
    /\ ~dispatched
    /\ IF nX # nY
       THEN /\ mgc_call' = [mgc_call EXCEPT !.ret = Raised("test_statistic", "AssertionError", nX, nY, NoArgs)]
            /\ UNCHANGED mgc_ts
       ELSE \E outs \in MgcOutputs(nX, E) :
            LET t == MgcStatistic(nX, outs)
            IN /\ mgc_ts' = [mgc_ts EXCEPT !.test_statistic_ = Some(t),
                                           !.test_statistic_metadata_ = Some("dist_mtx")]
               /\ mgc_call' = [mgc_call EXCEPT !.ret =
                      [call |-> "test_statistic", outcome |-> "ok", n |-> nX, nY |-> nY,
                       value |-> Some(t), metadata |-> Some("dist_mtx"),
                       base0 |-> Some(outs[0]), base |-> None, args |-> NoArgs]]
    /\ UNCHANGED <<ts_vars, dispatched, hhg_vars>>

\* Lines 174-190: up to the start of the replicate loop
MGC_TS_PValueEnter(nX, nY, replication_factor, E) ==
    /\ mgc_call.pc = "idle"
    /\ ~dispatched
    /\ IF nX # nY
       THEN /\ mgc_call' = [mgc_call EXCEPT !.ret = Raised("p_value", "AssertionError", nX, nY, NoArgs)]
            /\ UNCHANGED <<mgc_ts, dispatched>>
       ELSE \E outs \in MgcOutputs(nX, E) :
            LET t == MgcStatistic(nX, outs)
            IN /\ mgc_ts' = [mgc_ts EXCEPT !.test_statistic_ = Some(t),
                                           !.test_statistic_metadata_ = Some("dist_mtx")]
               /\ mgc_call' = [pc |-> "loop",
                               frame |-> [n |-> nX, block_size |-> CeilSqrt(nX),
                                          replication_factor |-> replication_factor,
                                          test_statistic |-> t,
                                          test_stats_null |-> <<>>,
                                          permuted_indices |-> <<>>],
                               ret |-> Raised("p_value", "running", nX, nY, NoArgs)]
               /\ dispatched' = TRUE
    /\ UNCHANGED <<ts_vars, hhg_vars>>

\* np.random.permutation(k): the orders of 0..k-1
RandomPermutations(k) == {f \in [1..k -> 0..(k - 1)] : \A a, b \in 1..k : f[a] = f[b] => a = b}

\* Line 193: runs of block_size indices from each drawn start, cut to n
MgcPermutedIndices(n, block_size, starts) ==
    LET flat == [i \in 1..(Len(starts) * block_size) |->
                    starts[((i - 1) \div block_size) + 1] + ((i - 1) % block_size)]
    IN SubSeq(flat, 1, Min(n, Len(flat)))

\* Lines 191-197: one pass of the replicate loop
MGC_TS_Replicate(E) ==
    LET fr == mgc_call.frame IN
    /\ mgc_call.pc = "loop"
    /\ Len(fr.test_stats_null) < fr.replication_factor
    /\ \E starts \in RandomPermutations((fr.n \div fr.block_size) + 1), outs \in MgcOutputs(fr.n, E) :
       LET t == MgcStatistic(fr.n, outs)
       IN /\ mgc_ts' = [mgc_ts EXCEPT !.test_statistic_ = Some(t),
                                      !.test_statistic_metadata_ = Some("dist_mtx")]
          /\ mgc_call' = [mgc_call EXCEPT
                 !.frame.test_stats_null = Append(@, t),
                 !.frame.permuted_indices = MgcPermutedIndices(fr.n, fr.block_size, starts)]
    /\ UNCHANGED <<ts_vars, dispatched, hhg_vars>>

\* np.where(test_stats_null >= test_statistic)[0].shape[0], line 199
RECURSIVE CountGreaterEqual(_, _)
CountGreaterEqual(null, t) ==
    IF null = <<>> THEN 0
    ELSE (IF ~RatGreater(t, Head(null)) THEN 1 ELSE 0) + CountGreaterEqual(Tail(null), t)

\* Line 199
MgcPValue(null, t, replication_factor) == Rat(CountGreaterEqual(null, t), replication_factor)

\* Lines 199-204
MGC_TS_PValueReturn ==
    LET fr == mgc_call.frame
        p == [kind |-> "fraction",
              frac |-> MgcPValue(fr.test_stats_null, fr.test_statistic, fr.replication_factor)]
        md == [test_stats_null |-> fr.test_stats_null]
    IN
    /\ mgc_call.pc = "loop"
    /\ Len(fr.test_stats_null) = fr.replication_factor
    /\ mgc_ts' = [mgc_ts EXCEPT !.p_value_ = Some(p), !.p_value_metadata_ = Some(md)]
    /\ mgc_call' = [mgc_call EXCEPT !.pc = "idle",
                       !.ret = [call |-> "p_value", outcome |-> "ok", n |-> fr.n, nY |-> fr.n,
                                value |-> Some(p), metadata |-> Some(md),
                                base0 |-> None, base |-> None, args |-> NoArgs]]
    /\ UNCHANGED <<ts_vars, dispatched, hhg_vars>>

\* -------------------------------------------------------------------- HHG
\* A matrix is the sequence of its rows.
Rows(m) == Len(m)
Cols(m) == IF m = <<>> THEN 0 ELSE Len(m[1])
Column(v) == [i \in 1..Len(v) |-> <<v[i]>>]

\* squareform(pdist(x, metric="euclidean")), ts_abstract_class.py lines 9-10
EuclideanDistance(x) ==
    [i \in 1..Rows(x) |-> [j \in 1..Rows(x) |->
        Sqrt(SumSeq([k \in 1..Cols(x) |-> (x[i][k] - x[j][k]) * (x[i][k] - x[j][k])]))]]

\* The test of lines 50 and 52: TRUE when the branch computes the distances
NeedsDistance(m) ==
    Rows(m) # Cols(m) \/ SumSeq([i \in 1..Rows(m) |-> m[i][i] * m[i][i]]) > 0

\* dist_mtx_X / dist_mtx_Y after lines 50-53: unbound when the branch is skipped
DistLocal(m) == IF NeedsDistance(m) THEN Some(EuclideanDistance(m)) ELSE None

Bit(b) == IF b THEN 1 ELSE 0

\* Variant: line 63 without the "- 2" that takes i and j out of the cell.
HhgPair_SelfCounted(DX, DY, n, i, j) ==
    LET tmp1 == [k \in 1..n |-> Bit(DX[i][k] <= DX[i][j])]
        tmp2 == [k \in 1..n |-> Bit(DY[i][k] <= DY[i][j])]
        t11 == SumSeq([k \in 1..n |-> tmp1[k] * tmp2[k]])
        t12 == SumSeq([k \in 1..n |-> tmp1[k] * (1 - tmp2[k])])
        t21 == SumSeq([k \in 1..n |-> (1 - tmp1[k]) * tmp2[k]])
        t22 == SumSeq([k \in 1..n |-> (1 - tmp1[k]) * (1 - tmp2[k])])
        denom == (t11 + t12) * (t21 + t22) * (t11 + t21) * (t12 + t22)
        num == (t12 * t21 - t11 * t22) * (t12 * t21 - t11 * t22)
    IN [t11 |-> t11, t12 |-> t12, t21 |-> t21, t22 |-> t22, denom |-> denom,
        S |-> IF denom > 0 THEN Rat((n - 2) * num, denom) ELSE Rat(0, 1)]

\* Lines 61-70 for one ordered pair (i, j), i # j
HhgPair(DX, DY, n, i, j) ==
    LET tmp1 == [k \in 1..n |-> Bit(DX[i][k] <= DX[i][j])]
        tmp2 == [k \in 1..n |-> Bit(DY[i][k] <= DY[i][j])]
        t11 == SumSeq([k \in 1..n |-> tmp1[k] * tmp2[k]]) - 2
        t12 == SumSeq([k \in 1..n |-> tmp1[k] * (1 - tmp2[k])])
        t21 == SumSeq([k \in 1..n |-> (1 - tmp1[k]) * tmp2[k]])
        t22 == SumSeq([k \in 1..n |-> (1 - tmp1[k]) * (1 - tmp2[k])])
        denom == (t11 + t12) * (t21 + t22) * (t11 + t21) * (t12 + t22)
        num == (t12 * t21 - t11 * t22) * (t12 * t21 - t11 * t22)
    IN [t11 |-> t11, t12 |-> t12, t21 |-> t21, t22 |-> t22, denom |-> denom,
        S |-> IF denom > 0 THEN Rat((n - 2) * num, denom) ELSE Rat(0, 1)]

\* Variant: the loop of line 58 written range(1, n), the first sample left out.
RECURSIVE HhgSum_FromSecondRow(_, _, _, _)
HhgSum_FromSecondRow(DX, DY, n, k) ==
    IF k = 0 THEN Rat(0, 1)
    ELSE LET i == ((k - 1) \div n) + 1
             j == ((k - 1) % n) + 1
             rest == HhgSum_FromSecondRow(DX, DY, n, k - 1)
         IN IF i # j /\ i > 1 THEN RatAdd(rest, HhgPair(DX, DY, n, i, j).S) ELSE rest

\* np.sum(S), line 71: the pairs in row-major order
RECURSIVE HhgSum(_, _, _, _)
HhgSum(DX, DY, n, k) ==
    IF k = 0 THEN Rat(0, 1)
    ELSE LET i == ((k - 1) \div n) + 1
             j == ((k - 1) % n) + 1
             rest == HhgSum(DX, DY, n, k - 1)
         IN IF i # j THEN RatAdd(rest, HhgPair(DX, DY, n, i, j).S) ELSE rest

HhgStatistic(DX, DY) == HhgSum(DX, DY, Rows(DX), Rows(DX) * Rows(DX))

\* HHG.test_statistic, lines 49-77
HHG_TestStatistic ==
    LET dist_mtx_X == DistLocal(hhg_args.X)
        dist_mtx_Y == DistLocal(hhg_args.Y)
        n == Rows(Get(dist_mtx_X))
    IN
    /\ hhg_args.X # <<>>
    /\ IF IsNone(dist_mtx_X)                          \* line 55 reads an unbound local
       THEN /\ hhg_ret' = Raised("test_statistic", "UnboundLocalError", Rows(hhg_args.X),
                            Rows(hhg_args.Y), NoArgs)
            /\ UNCHANGED hhg
       ELSE IF IsNone(dist_mtx_Y) /\ n >= 2           \* line 62 reads an unbound local
       THEN /\ hhg_ret' = Raised("test_statistic", "UnboundLocalError", Rows(hhg_args.X),
                            Rows(hhg_args.Y), NoArgs)
            /\ UNCHANGED hhg
       ELSE LET corr == IF n >= 2 THEN HhgStatistic(Get(dist_mtx_X), Get(dist_mtx_Y))
                        ELSE Rat(0, 1)
            IN /\ hhg' = [test_statistic_ |-> Some(corr),
                          test_statistic_metadata_ |-> Some("empty")]
               /\ hhg_ret' = [call |-> "test_statistic", outcome |-> "ok", n |-> n, nY |-> Rows(hhg_args.Y),
                              value |-> Some(corr), metadata |-> Some("empty"),
                              base0 |-> None, base |-> None, args |-> NoArgs]
    /\ UNCHANGED <<ts_vars, mgc_vars, dispatched, hhg_args>>

\* ---------------------------------------------------------------- __init__
NoRet == [call |-> "none", outcome |-> "ok", n |-> 0, nY |-> 0,
          value |-> None, metadata |-> None, base0 |-> None, base |-> None, args |-> NoArgs]

\* TimeSeriesIndependenceTest.__init__, lines 34-44
TSConstructed ==
    /\ max_lag \in {None} \cup {Some(m) : m \in 0..MaxLag}
    /\ which_test \in WhichTests
    /\ test_statistic_ = None
    /\ test_statistic_metadata_ = None
    /\ p_value_ = None
    /\ p_value_metadata_ = None
    /\ pc = "idle"
    /\ frame = NoFrame
    /\ test_stats_null = <<>>
    /\ permuted_indices = <<>>
    /\ drawn_offsets = <<>>
    /\ ret = NoRet
    /\ baseCalls = 0
    /\ draws = 0

\* no TimeSeriesIndependenceTest in the run
TSAbsent ==
    /\ max_lag = None
    /\ which_test = "absent"
    /\ test_statistic_ = None
    /\ test_statistic_metadata_ = None
    /\ p_value_ = None
    /\ p_value_metadata_ = None
    /\ pc = "absent"
    /\ frame = NoFrame
    /\ test_stats_null = <<>>
    /\ permuted_indices = <<>>
    /\ drawn_offsets = <<>>
    /\ ret = NoRet
    /\ baseCalls = 0
    /\ draws = 0

MgcNoFrame == [n |-> 0, block_size |-> 0, replication_factor |-> 0,
               test_statistic |-> Rat(0, 1), test_stats_null |-> <<>>,
               permuted_indices |-> <<>>]

\* MGC_TS.__init__, lines 33-37
MGCConstructed ==
    /\ mgc_ts \in [max_lag : {None} \cup {Some(m) : m \in 0..MaxMgcLag},
                   test_statistic_ : {None}, test_statistic_metadata_ : {None},
                   p_value_ : {None}, p_value_metadata_ : {None}]
    /\ mgc_call = [pc |-> "idle", frame |-> MgcNoFrame, ret |-> NoRet]

\* no MGC_TS in the run
MGCAbsent ==
    /\ mgc_ts = [max_lag |-> None, test_statistic_ |-> None,
                 test_statistic_metadata_ |-> None, p_value_ |-> None,
                 p_value_metadata_ |-> None]
    /\ mgc_call = [pc |-> "absent", frame |-> MgcNoFrame, ret |-> NoRet]

\* no HHG in the run
HHGAbsent ==
    /\ hhg_args = [X |-> <<>>, Y |-> <<>>]
    /\ hhg = [test_statistic_ |-> None, test_statistic_metadata_ |-> None]
    /\ hhg_ret = NoRet

InitTS == TSConstructed /\ MGCAbsent /\ HHGAbsent /\ dispatched = FALSE

InitMGC == TSAbsent /\ MGCConstructed /\ HHGAbsent /\ dispatched = FALSE

\* HHG.__init__, lines 13-14, and the pair of matrices of the run: each is
\* an n x 1 data matrix or the distance matrix of one.
HhgInputs(n) ==
    {Column(v) : v \in [1..n -> HhgCoords]}
    \cup {EuclideanDistance(Column(v)) : v \in [1..n -> HhgCoords]}

InitHHG ==
    /\ TSAbsent /\ MGCAbsent /\ dispatched = FALSE
    /\ \E n \in 1..HhgMaxN : hhg_args \in [X : HhgInputs(n), Y : HhgInputs(n)]
    /\ hhg = [test_statistic_ |-> None, test_statistic_metadata_ |-> None]
    /\ hhg_ret = NoRet

\* ------------------------------------------------------------------ runs
\* Statistic-only runs: the first test_statistic call on a constructed
\* instance. The call reads max_lag and which_test only, so its result does
\* not depend on earlier calls; sequences of calls are in the p-value runs.
StatEnv == [stat |-> StatValues, scale |-> Scales, offsets |-> {}]

NextStat ==
    /\ ret.call = "none"
    /\ \E nX \in 1..MaxN : \E nY \in {nX, nX + 1} : TestStatistic(nX, nY, StatEnv)

SpecStat == InitTS /\ [][NextStat]_vars

\* Runs with p_value: test_statistic calls and p_value calls that fail at
\* entry, up to and including the first p_value call that dispatches its
\* workers, which is followed step by step to its return.
PVEnv == [stat |-> PVStatValues, scale |-> {"scaleA"}, offsets |-> {0, 3}]

\* (replication_factor, is_fast, block_size, subsample_size) of the calls
PVArgs(n) ==
    (IF n <= MaxN THEN {<<R, FALSE, b, -1>> : R \in 1..MaxRep, b \in {None, Some(n)}}
     ELSE {})
    \cup {<<1, TRUE, Some(n), ss>> : ss \in {-1, 11, 20}}

NextTS ==
    \/ \E nX \in PVSizes : \E nY \in {nX, nX + 1} : TestStatistic(nX, nY, PVEnv)
    \/ \E nX \in PVSizes : \E nY \in {nX, nX + 1}, a \in PVArgs(nX), backend \in Backends :
          PValueEnter(nX, nY, a[1], a[2], a[3], a[4], backend, PVEnv)
    \/ \E rep \in 0..(MaxRep - 1) : ExactWorker(rep, PVEnv)
    \/ ExactReturn
    \/ \E i \in DOMAIN test_stats_null : FastWorker(i, PVEnv)
    \/ \E i \in DOMAIN test_stats_null : WorkerRaises(i)
    \/ FastReturn

SpecTS == InitTS /\ [][NextTS]_vars

\* MGC_TS runs: test_statistic calls, then one p_value call followed through
\* its replicate loop to its return.
MgcEnv == [stat |-> MgcStatValues]

NextMGC ==
    \/ \E nX \in MgcSizes : \E nY \in {nX, nX + 1} : MGC_TS_TestStatistic(nX, nY, MgcEnv)
    \/ \E nX \in MgcSizes : \E nY \in {nX, nX + 1}, R \in 1..MaxRep :
          MGC_TS_PValueEnter(nX, nY, R, MgcEnv)
    \/ MGC_TS_Replicate(MgcEnv)
    \/ MGC_TS_PValueReturn

SpecMGC == InitMGC /\ [][NextMGC]_vars

\* HHG runs: test_statistic on the pair of matrices of the run.
NextHHG == HHG_TestStatistic

SpecHHG == InitHHG /\ [][NextHHG]_vars

\* ------------------------------------------------------------------ claims
Returned(r, name) == r.call = name /\ r.outcome = "ok"

PositiveP(p) ==
    IF p.kind = "fraction" THEN p.frac[1] > 0 /\ p.frac[1] <= p.frac[2]
    ELSE p.tail # "zero"

\* C1: every p-value that p_value returns lies in (0, 1] and is never 0:
\* TimeSeriesIndependenceTest.p_value in exact and in fast mode, and
\* MGC_TS.p_value.
C1_PValueNeverZero ==
    /\ Returned(ret, "p_value") => PositiveP(Get(ret.value))
    /\ Returned(mgc_call.ret, "p_value") => PositiveP(Get(mgc_call.ret.value))

\* The replicates of the joined exact-mode call that exceed the observed statistic
StrictlyGreater ==
    {rep \in DOMAIN test_stats_null :
        RatGreater(Get(test_stats_null[rep]), frame.test_statistic)}

ExactReturned == Returned(ret, "p_value") /\ ~ret.args.is_fast

\* C2: in exact mode p_value returns k/replication_factor, k the number of
\* null replicates strictly greater than the observed statistic (equal ones
\* are not counted), and 1/replication_factor when k = 0.
C2_ExactPValueIsStrictFraction ==
    ExactReturned =>
        LET k == Cardinality(StrictlyGreater)
            R == ret.args.replication_factor
        IN /\ Get(ret.value).kind = "fraction"
           /\ Get(ret.value).frac[1] * R = (IF k = 0 THEN 1 ELSE k) * Get(ret.value).frac[2]
           /\ p_value_ = ret.value

\* C2 witness: two replicates, one equal to the observed statistic and none
\* above it, and the call returned 1/2.
C2_Witness ==
    /\ ExactReturned
    /\ ret.args.replication_factor = 2
    /\ StrictlyGreater = {}
    /\ \E rep \in DOMAIN test_stats_null : Get(test_stats_null[rep]) = frame.test_statistic
    /\ Get(ret.value).frac = <<1, 2>>

LagTooLarge(r) ==
    /\ r.call \in {"test_statistic", "p_value"}
    /\ r.n = r.nY
    /\ r.n >= 5
    /\ ~IsNone(max_lag)
    /\ Get(max_lag) >= r.n - 4

\* C3: for n >= 5 and a configured max_lag >= n - 4, test_statistic and
\* p_value raise ValueError before the base statistic is invoked, return
\* nothing, and leave the fields of the instance as they were.
C3_InvalidLagFailsFirst ==
    [][LagTooLarge(ret') =>
          /\ ret'.outcome = "ValueError"
          /\ IsNone(ret'.value) /\ IsNone(ret'.metadata)
          /\ baseCalls' = 0
          /\ fields' = fields]_vars

\* C3 witness: p_value raised for max_lag = n - 4 on an instance that holds
\* the result of an earlier test_statistic call.
C3_Witness ==
    /\ LagTooLarge(ret)
    /\ ret.call = "p_value"
    /\ Get(max_lag) = ret.n - 4
    /\ ret.outcome = "ValueError"
    /\ ~IsNone(test_statistic_)

StatReturned == Returned(ret, "test_statistic")

\* C4: optimal_lag is in [0, max_lag] and is the smallest index at which
\* dependence_by_lag attains its maximum.
C4_OptimalLagIsFirstArgmax ==
    StatReturned =>
        LET md == Get(ret.metadata)
            dbl == md.dependence_by_lag
            o == md.optimal_lag
        IN /\ o \in 0..Get(max_lag)
           /\ \A j \in 0..Get(max_lag) :
                 /\ ~RatGreater(dbl[j], dbl[o])
                 /\ j < o => RatGreater(dbl[o], dbl[j])

\* C4 witness: lags 0 and 1 tie at a positive maximum and lag 0 is reported.
C4_Witness ==
    /\ StatReturned
    /\ Get(max_lag) >= 1
    /\ Get(ret.metadata).optimal_lag = 0
    /\ Get(ret.metadata).dependence_by_lag[0] = Get(ret.metadata).dependence_by_lag[1]
    /\ Get(ret.metadata).dependence_by_lag[0][1] > 0

RECURSIVE ScaledSum(_, _, _)
ScaledSum(dbl, j, n) ==
    IF j < 0 THEN 0 ELSE ScaledSum(dbl, j - 1, n) + dbl[j][1] * (n \div dbl[j][2])

\* C5: dependence_by_lag has max_lag + 1 entries, each >= 0 (lag 0 too,
\* also for a negative base statistic), and the statistic is their sum.
C5_DependenceByLagShape ==
    StatReturned =>
        LET dbl == Get(ret.metadata).dependence_by_lag
            M == Get(max_lag)
            t == Get(ret.value)
        IN /\ DOMAIN dbl = 0..M
           /\ Cardinality(DOMAIN dbl) = M + 1
           /\ \A j \in 0..M : dbl[j][1] >= 0 /\ dbl[j][2] > 0
           /\ t[1] * (ret.n \div t[2]) = ScaledSum(dbl, M, ret.n)
           /\ test_statistic_ = ret.value

\* C5 witness: a negative base statistic at lag 0, a positive one at lag 1.
C5_Witness ==
    /\ StatReturned
    /\ Get(max_lag) >= 1
    /\ Get(ret.base0) < 0
    /\ Get(ret.metadata).dependence_by_lag[0] = Rat(0, 1)
    /\ Get(ret.metadata).dependence_by_lag[1][1] > 0

\* C6 as stated: with max_lag = 0 the statistic equals the value of the base
\* statistic on the full matrices, whatever its sign.
C6_MaxLagZeroEqualsBase ==
    (StatReturned /\ max_lag = Some(0)) => Get(ret.value) = Rat(Get(ret.base0), 1)

\* C6 amended: with max_lag = 0 the statistic equals the value of the base
\* statistic on the full matrices when that is >= 0, and 0 when it is negative.
C6_MaxLagZeroEqualsFlooredBase ==
    (StatReturned /\ max_lag = Some(0)) =>
        Get(ret.value) = (IF Get(ret.base0) >= 0 THEN <<Get(ret.base0), 1>> ELSE <<0, 1>>)

\* C6 witness: max_lag = 0 and a negative base statistic, reported as 0.
C6_Witness ==
    /\ StatReturned
    /\ max_lag = Some(0)
    /\ Get(ret.base0) < 0
    /\ Get(ret.value) = <<0, 1>>

FastDispatched == pc = "fast" /\ frame.is_fast

\* C7 as stated: in fast mode p_value raises whenever the caller's
\* subsample_size is below max_lag + 10; it never goes on to the subsamples.
C7_SmallSubsampleRaises ==
    FastDispatched => frame.args.subsample_size >= Get(max_lag) + 10

\* C7 amended: in fast mode a caller's subsample_size below max_lag + 10 (the
\* default -1 included) is replaced by max(max_lag + 10, floor(sqrt(n))) and
\* the call goes on with that; a subsample_size of at least max_lag + 10 is
\* kept; the call never goes on with a subsample size below max_lag + 10.
C7_SmallSubsampleReplaced ==
    FastDispatched =>
        /\ frame.subsample_size >= Get(max_lag) + 10
        /\ frame.args.subsample_size < Get(max_lag) + 10 =>
              frame.subsample_size = Max(Get(max_lag) + 10, FloorSqrt(frame.n))
        /\ frame.args.subsample_size >= Get(max_lag) + 10 =>
              frame.subsample_size = frame.args.subsample_size
        /\ frame.num_samples = frame.n \div frame.subsample_size
        /\ DOMAIN test_stats_null = 0..(frame.num_samples - 1)

\* C7 witness: the default subsample_size with max_lag = 1, replaced by 11.
C7_Witness ==
    /\ FastDispatched
    /\ frame.args.subsample_size = -1
    /\ Get(max_lag) = 1
    /\ frame.subsample_size = 11

\* C8: in fast mode, when fewer than 4 subsamples fit, p_value fails before
\* any computation: no base statistic has been computed and no permutation
\* drawn when it raises.
C8_FastFailsBeforeComputation ==
    (/\ ret.call = "p_value" /\ ret.outcome = "ValueError" /\ ret.args.is_fast
     /\ ret.n = ret.nY /\ ~IsNone(max_lag) /\ Get(max_lag) < ret.n - 4)
    => baseCalls = 0 /\ draws = 0

\* C9: with max_lag None, test_statistic and p_value run with M = ceil(log n):
\* they do not fail for that reason, the bound M < n - 4 is checked against
\* the default, and dependence_by_lag has ceil(log n) + 1 entries.
C9_DefaultLagIsCeilLog ==
    (ret.call \in {"test_statistic", "p_value"} /\ IsNone(max_lag) /\ ret.n = ret.nY) =>
        /\ ret.outcome # "TypeError"
        /\ CeilLog(ret.n) >= ret.n - 4 => ret.outcome = "ValueError"
        /\ StatReturned => DOMAIN Get(ret.metadata).dependence_by_lag = 0..CeilLog(ret.n)

\* the distance matrix an input stands for: itself when it already is one
AsDistance(m) == IF NeedsDistance(m) THEN EuclideanDistance(m) ELSE m

\* C10: HHG.test_statistic accepts a distance matrix for X and/or Y and
\* returns the statistic it returns for the data matrix behind it.
C10_DistanceInputAccepted ==
    (hhg_ret.call = "test_statistic"
     /\ (~NeedsDistance(hhg_args.X) \/ ~NeedsDistance(hhg_args.Y))) =>
        /\ hhg_ret.outcome = "ok"
        /\ Rows(hhg_args.X) >= 2 =>
              Get(hhg_ret.value) = HhgStatistic(AsDistance(hhg_args.X), AsDistance(hhg_args.Y))

HhgReturned == Returned(hhg_ret, "test_statistic") /\ hhg_ret.n >= 2

\* rows and columns of the square matrix m reordered by the permutation pi
Reorder(m, pi) == [i \in 1..Rows(m) |-> [j \in 1..Rows(m) |-> m[pi[i] + 1][pi[j] + 1]]]

\* the rows of the data matrix m in the order pi
ReorderRows(m, pi) == [i \in 1..Rows(m) |-> m[pi[i] + 1]]

\* the permutation of 0..n-1 that exchanges the labels a and b
Swap(n, a, b) == [i \in 1..n |-> IF i = a THEN b - 1 ELSE IF i = b THEN a - 1 ELSE i - 1]

Swaps(n) == {Swap(n, a, b) : a, b \in 1..n} \ {Swap(n, 1, 1)}

\* C11: the HHG statistic is unchanged when the n samples are relabelled: for
\* the distance matrices DX, DY of every call and every exchange pi of two
\* labels, the statistic on (DX, DY) equals the statistic on DX and DY with
\* rows and columns reordered by pi, which are the matrices of the relabelled
\* call.  Every permutation is a product of exchanges and the relabelled
\* inputs are inputs of the runs, so this is the symmetry under every
\* permutation.
C11_HhgLabelSymmetry ==
    HhgReturned =>
        LET DX == Get(DistLocal(hhg_args.X))
            DY == Get(DistLocal(hhg_args.Y))
        IN \A pi \in Swaps(hhg_ret.n) :
              /\ DistLocal(ReorderRows(hhg_args.X, pi)) = Some(Reorder(DX, pi))
              /\ DistLocal(ReorderRows(hhg_args.Y, pi)) = Some(Reorder(DY, pi))
              /\ HhgStatistic(Reorder(DX, pi), Reorder(DY, pi)) = Get(hhg_ret.value)

\* C11 witness: a positive statistic on four samples whose distance matrices
\* a relabelling changes.
C11_Witness ==
    /\ HhgReturned
    /\ hhg_ret.n = 4
    /\ Get(hhg_ret.value)[1] > 0
    /\ \E pi \in Swaps(4) :
          /\ Reorder(Get(DistLocal(hhg_args.X)), pi) # Get(DistLocal(hhg_args.X))
          /\ Reorder(Get(DistLocal(hhg_args.Y)), pi) # Get(DistLocal(hhg_args.Y))

\* C16: for every ordered pair i # j the four counts are >= 0 and sum to
\* n - 2, a pair whose marginals have product 0 contributes exactly 0, and the
\* statistic is a finite number >= 0.
C16_HhgContingencyCounts ==
    HhgReturned =>
        LET DX == Get(DistLocal(hhg_args.X))
            DY == Get(DistLocal(hhg_args.Y))
            n == hhg_ret.n
        IN /\ \A i, j \in 1..n : i # j =>
                 LET p == HhgPair(DX, DY, n, i, j)
                 IN /\ p.t11 >= 0 /\ p.t12 >= 0 /\ p.t21 >= 0 /\ p.t22 >= 0
                    /\ p.t11 + p.t12 + p.t21 + p.t22 = n - 2
                    /\ p.denom >= 0
                    /\ p.denom = 0 => p.S = Rat(0, 1)
                    /\ p.S[1] >= 0 /\ p.S[2] > 0
           /\ Get(hhg_ret.value)[1] >= 0
           /\ Get(hhg_ret.value)[2] > 0
           /\ Get(hhg_ret.value) = HhgStatistic(DX, DY)

\* C16 witness: a call in which one pair has a zero marginal and another
\* pair contributes a positive term.
C16_Witness ==
    /\ HhgReturned
    /\ LET DX == Get(DistLocal(hhg_args.X))
           DY == Get(DistLocal(hhg_args.Y))
           n == hhg_ret.n
       IN /\ \E i, j \in 1..n : i # j /\ HhgPair(DX, DY, n, i, j).denom = 0
          /\ \E i, j \in 1..n : i # j /\ HhgPair(DX, DY, n, i, j).S[1] > 0

\* C18: for which_test = 'mgcx' the reported optimal_scale is the scale the
\* base statistic returned at the reported optimal_lag (the lag-0 scale when
\* optimal_lag = 0); for any other base statistic the metadata has no
\* optimal_scale key.
C18_OptimalScaleOfOptimalLag ==
    StatReturned =>
        LET md == Get(ret.metadata)
            outs == Get(ret.base)
        IN IF which_test = "mgcx"
           THEN /\ md.has_optimal_scale
                /\ md.optimal_scale = Some(outs[md.optimal_lag].scale)
                /\ test_statistic_metadata_ = ret.metadata
           ELSE /\ ~md.has_optimal_scale
                /\ IsNone(md.optimal_scale)

\* C18 witness: lag 1 wins over lags 0 and 2 and its scale, which is neither
\* the scale of lag 0 nor that of the last lag, is reported.
C18_Witness ==
    /\ StatReturned
    /\ which_test = "mgcx"
    /\ max_lag = Some(2)
    /\ Get(ret.metadata).optimal_lag = 1
    /\ Get(ret.base)[0].scale # Get(ret.base)[1].scale
    /\ Get(ret.base)[2].scale # Get(ret.base)[1].scale
    /\ Get(ret.metadata).optimal_scale = Some(Get(ret.base)[1].scale)

\* a permutation has been drawn in the exact-mode call
ExactDrawn == frame.n > 0 /\ ~frame.is_fast /\ draws > 0

\* a permutation has been drawn in the exact-mode or the fast-mode call
Drawn == frame.n > 0 /\ draws > 0

\* C12: in exact mode with block_size = n a replicate's index vector is one
\* run of all n indices, modulo n, from the first drawn offset: every index
\* of [0, n) is there exactly once and the second offset contributes nothing.
C12_FullBlockIsOneRun ==
    (ExactDrawn /\ frame.block_size = frame.n) =>
        LET n == frame.n IN
        /\ Len(drawn_offsets) = 2
        /\ Len(permuted_indices) = n
        /\ \A k \in 1..n : permuted_indices[k] = (drawn_offsets[1] + (k - 1)) % n
        /\ \A v \in 0..(n - 1) : Cardinality({k \in 1..n : permuted_indices[k] = v}) = 1
        /\ permuted_indices = BlockPermutation(n, n, <<drawn_offsets[1]>>)

\* C12 witness: five samples, offsets 3 and 0 drawn, the run 3 4 0 1 2.
C12_Witness ==
    /\ ExactDrawn
    /\ frame.n = 5 /\ frame.block_size = 5
    /\ drawn_offsets = <<3, 0>>
    /\ permuted_indices = <<3, 4, 0, 1, 2>>

\* what the draw of a permutation leaves behind, but for the number of offsets
DrawShape ==
    LET n == frame.n
        b == frame.block_size
    IN /\ \A k \in 1..Len(drawn_offsets) : drawn_offsets[k] \in 0..(n - 1)
       /\ Len(permuted_indices) = n
       /\ \A k \in 1..n :
             /\ permuted_indices[k] \in 0..(n - 1)
             /\ ((k - 1) \div b) + 1 <= Len(drawn_offsets)
             /\ permuted_indices[k] = (drawn_offsets[((k - 1) \div b) + 1] + ((k - 1) % b)) % n
       /\ frame.is_fast => frame.permuted_Y = permuted_indices

\* C13 as stated: every draw samples ceil(n / block_size) + 1 offsets of
\* [0, n); the index vector has n entries of [0, n), the runs of block_size
\* indices modulo n from each offset in draw order.
C13_CeilPlusOneOffsets ==
    Drawn =>
        /\ Len(drawn_offsets) = ((frame.n + frame.block_size - 1) \div frame.block_size) + 1
        /\ DrawShape

\* C13 amended: every draw samples n // block_size + 1 offsets of [0, n); the
\* index vector has n entries of [0, n), the runs of block_size indices
\* modulo n from each offset in draw order.
C13_FloorPlusOneOffsets ==
    Drawn =>
        /\ Len(drawn_offsets) = (frame.n \div frame.block_size) + 1
        /\ DrawShape

\* C13 witness: five samples in blocks of three, two offsets 3 and 0 drawn,
\* the vector 3 4 0 0 1.
C13_Witness ==
    /\ Drawn
    /\ frame.n = 5 /\ frame.block_size = 3
    /\ drawn_offsets = <<3, 0>>
    /\ permuted_indices = <<3, 4, 0, 0, 1>>

\* C14: the replicates write nothing the caller reads: once p_value has
\* returned, test_statistic_ and test_statistic_metadata_ of the instance are
\* those of the observed data, whatever the order and the place the workers
\* ran in.
C14_FieldsAreOfObservedData ==
    (Returned(ret, "p_value") /\ frame.n > 0) =>
        test_statistic_ = Some(frame.test_statistic)

\* C15: when the statistic of a replicate or of a subsample block raises,
\* p_value raises: it returns no p-value and no null distribution, and
\* p_value_ and p_value_metadata_ are what they were when the call began
\* (no step of the call up to the failure changes them).
C15_WorkerFailurePropagates ==
    [][/\ ret'.outcome = "Exception" =>
            /\ ret'.call = "p_value"
            /\ IsNone(ret'.value) /\ IsNone(ret'.metadata)
            /\ pc' = "idle"
            /\ p_value_' = p_value_ /\ p_value_metadata_' = p_value_metadata_
       /\ pc' \in {"exact", "fast"} =>
            p_value_' = p_value_ /\ p_value_metadata_' = p_value_metadata_]_vars

\* C15 witness: a worker raised after another one had finished.
C15_Witness ==
    /\ ret.outcome = "Exception"
    /\ \E k \in DOMAIN test_stats_null : ~IsNone(test_stats_null[k])
    /\ \E k \in DOMAIN test_stats_null : IsNone(test_stats_null[k])
    /\ IsNone(p_value_) /\ IsNone(p_value_metadata_)

\* C17: in a fast-mode call that passed the entry checks the num_samples
\* blocks are contiguous, inside [0, n) and pairwise disjoint, all cut from
\* the one permutation drawn, and each block passes the lag validation, so
\* that no block fails with ValueError.
C17_FastBlocksDisjointAndValid ==
    /\ FastDispatched =>
         LET ss == frame.subsample_size
             blocks == [i \in 0..(frame.num_samples - 1) |-> SubsampleIndices(ss, i)]
         IN /\ frame.num_samples >= 4
            /\ frame.num_samples = frame.n \div ss
            /\ DOMAIN test_stats_null = DOMAIN blocks
            /\ \A i \in DOMAIN blocks :
                  /\ Len(blocks[i]) = ss
                  /\ \A m \in 1..ss :
                        /\ blocks[i][m] \in 0..(frame.n - 1)
                        /\ m > 1 => blocks[i][m] = blocks[i][m - 1] + 1
            /\ \A i, j \in DOMAIN blocks : i # j =>
                  {blocks[i][m] : m \in 1..ss} \cap {blocks[j][m] : m \in 1..ss} = {}
            /\ draws = 1
            /\ frame.permuted_Y = permuted_indices
            /\ Get(max_lag) < ss - 4
            /\ ValidateInput(ss, ss, None, max_lag).outcome = "ok"
    /\ (dispatched /\ frame.is_fast) => ret.outcome # "ValueError"

\* C17 witness: 44 samples, max_lag = 1, four blocks of 11, all computed.
C17_Witness ==
    /\ FastDispatched
    /\ frame.n = 44 /\ frame.subsample_size = 11 /\ max_lag = Some(1)
    /\ \A i \in DOMAIN test_stats_null : ~IsNone(test_stats_null[i])
====
